---- MODULE Spec2Model ----
(***************************************************************************)
(* A model of scraper.py: one scheduled run = load the cache, fetch the    *)
(* news page, diff, filter on a first run, notify every receiver, save.    *)
(*                                                                         *)
(* Text is a sequence of tokens.  An identifier is the token sequence      *)
(*     date_str \o <<SEP>> \o title                                        *)
(* A JSON value read from the cache file is a record [kind, body] whose    *)
(* body is always a sequence of token sequences:                           *)
(*   array  : body = the elements                                          *)
(*   object : body = the keys                                              *)
(*   string : body = << the text >>                                        *)
(*   scalar : body = << the literal >>   (number, true, false, null)       *)
(* Dates are counted in days before today.                                 *)
(***************************************************************************)
EXTENDS Integers, Sequences, FiniteSets, TLC

\* ---- bounds of the model -------------------------------------------------
MaxItems == 2          \* h3 headings on the fetched page
MaxCached == 1         \* identifiers in the cache array before the first run

\* ---- program constants ---------------------------------------------------
FetchMaxAttempts == 3  \* stop_after_attempt(3) on get_latest_news
SendMaxAttempts == 5   \* stop_after_attempt(5) on send_viber_message
CutoffDays == 365      \* timedelta(days=365)

SEP == " || "
UnknownDate == "Unknown Date"

\* ---- dates ---------------------------------------------------------------
\* Texts in DD/MM/YYYY form and in YYYY-MM-DD form, with the day they name.
DmyDay(text) ==
    CASE text = "dmy365" -> 365
      [] text = "dmy366" -> 366
      [] OTHER -> -1

IsoDay(text) ==
    CASE text = "iso365" -> 365
      [] text = "iso366" -> 366
      [] OTHER -> -1

IsoText(day) ==
    CASE day = 365 -> "iso365"
      [] day = 366 -> "iso366"

\* strptime(raw_date, "%d/%m/%Y") then strftime("%Y-%m-%d"); ValueError keeps
\* the raw text.
NormalizeDate(raw_date) ==
    IF DmyDay(raw_date) >= 0 THEN IsoText(DmyDay(raw_date)) ELSE raw_date

\* ---- extraction ----------------------------------------------------------
NoDate == "<none>"     \* no d-flex parent, no sibling <p>, or no strong > u text

\* The h3 elements a page can hold: stripped title text and the date text
\* found by walking parent -> next sibling p -> strong > u.
Headings ==
    { [title |-> <<"A">>, date |-> "dmy365"],
      [title |-> <<"B">>, date |-> "dmy366"],
      [title |-> <<"B">>, date |-> "iso366"],
      [title |-> <<"A">>, date |-> NoDate],
      [title |-> <<"B">>, date |-> "soon"],
      [title |-> <<>>,    date |-> "dmy365"] }

RECURSIVE SeqsUpTo(_, _)
SeqsUpTo(S, n) ==
    IF n = 0 THEN { <<>> }
    ELSE LET shorter == SeqsUpTo(S, n - 1)
         IN  shorter \cup { Append(s, x) : s \in shorter, x \in S }

\* What one requests.get + parse can meet.
Responses ==
    { [kind |-> k, headings |-> <<>>] :
        k \in {"transport_error", "http_error", "no_container", "parse_error"} }
    \cup { [kind |-> "ok", headings |-> h] : h \in SeqsUpTo(Headings, MaxItems) }

MakeIdentifier(h) ==
    LET date_str == IF h.date = NoDate THEN UnknownDate ELSE NormalizeDate(h.date)
    IN  <<date_str, SEP>> \o h.title

\* The loop over title_elements: empty titles are skipped.
RECURSIVE ExtractIdentifiers(_)
ExtractIdentifiers(hs) ==
    IF hs = <<>> THEN <<>>
    ELSE LET rest == ExtractIdentifiers(Tail(hs))
         IN  IF Head(hs).title = <<>> THEN rest
             ELSE <<MakeIdentifier(Head(hs))>> \o rest

\* The body of get_latest_news: every exception is caught inside the function
\* and turned into [], so the body never raises.
GetLatestNewsBody(resp) ==
    CASE resp.kind = "ok" ->
            [raised |-> FALSE, value |-> ExtractIdentifiers(resp.headings)]
      [] resp.kind = "no_container" -> [raised |-> FALSE, value |-> <<>>]
      [] resp.kind \in {"transport_error", "http_error"} ->
            [raised |-> FALSE, value |-> <<>>]
      [] resp.kind = "parse_error" -> [raised |-> FALSE, value |-> <<>>]

\* What one call of get_latest_news can do: the kind of response it met and
\* what its body made of it.
FetchOutcomes ==
    { [kind |-> resp.kind, result |-> GetLatestNewsBody(resp)] : resp \in Responses }

\* As RetryAgain, but the attempt count is compared with <=.
RetryAgain_Inclusive(raised, attemptsMade, maxAttempts) ==
    raised /\ attemptsMade <= maxAttempts

\* tenacity: call again only when the call raised and attempts are left.
RetryAgain(raised, attemptsMade, maxAttempts) ==
    raised /\ attemptsMade < maxAttempts

\* ---- the cache file ------------------------------------------------------
Absent == [kind |-> "absent", body |-> <<>>]
Corrupt == [kind |-> "corrupt", body |-> <<>>]
JsonArray(items) == [kind |-> "array", body |-> items]

SameFile(f, g) == f.kind = g.kind /\ f.body = g.body

Identifiers ==
    { s \in { ExtractIdentifiers(<<h>>) : h \in Headings } : s # <<>> }

AllIdentifiers == { s[1] : s \in Identifiers }

InitialFiles ==
    { Absent, Corrupt,
      [kind |-> "scalar", body |-> << <<"5">> >>],
      [kind |-> "scalar", body |-> << <<"null">> >>],
      [kind |-> "string", body |-> << <<"x">> >>],
      [kind |-> "object", body |-> << <<"iso365", SEP, "A">> >>] }
    \cup { JsonArray(c) : c \in SeqsUpTo(AllIdentifiers, MaxCached) }

\* load_cached_news: a missing file and undecodable JSON give []; any JSON
\* value that decodes is returned as it is.
LoadCachedNews(f) ==
    CASE f.kind = "absent" -> JsonArray(<<>>)
      [] f.kind = "corrupt" -> JsonArray(<<>>)
      [] OTHER -> f

\* Python truth value of a loaded JSON value.
Truthy(v) ==
    CASE v.kind \in {"array", "object"} -> v.body # <<>>
      [] v.kind = "string" -> v.body[1] # <<>>
      [] v.kind = "scalar" -> v.body[1] \notin { <<"0">>, <<"null">>, <<"false">> }

\* `in` raises TypeError on a number, a bool and None.
Iterable(v) == v.kind # "scalar"

IsSubstring(s, t) ==
    \E k \in 0..(Len(t) - Len(s)) : SubSeq(t, k + 1, k + Len(s)) = s

\* ident in cached, for an iterable cached.
Contains(v, ident) ==
    CASE v.kind \in {"array", "object"} -> \E k \in 1..Len(v.body) : v.body[k] = ident
      [] v.kind = "string" -> IsSubstring(ident, v.body[1])

\* As NewIdentifiers, but each kept item is put in front of the ones before it.
RECURSIVE NewIdentifiers_Reversed(_, _)
NewIdentifiers_Reversed(latest_identifiers, cached_identifiers) ==
    IF latest_identifiers = <<>> THEN <<>>
    ELSE LET ident == Head(latest_identifiers)
             rest == NewIdentifiers_Reversed(Tail(latest_identifiers), cached_identifiers)
         IN  IF Contains(cached_identifiers, ident) THEN rest ELSE rest \o <<ident>>

\* As NewIdentifiers, but without the `if ident not in cached_identifiers`.
NewIdentifiers_All(latest_identifiers, cached_identifiers) == latest_identifiers

\* [ident for ident in latest_identifiers if ident not in cached_identifiers]
RECURSIVE NewIdentifiers(_, _)
NewIdentifiers(latest_identifiers, cached_identifiers) ==
    IF latest_identifiers = <<>> THEN <<>>
    ELSE LET ident == Head(latest_identifiers)
             rest == NewIdentifiers(Tail(latest_identifiers), cached_identifiers)
         IN  IF Contains(cached_identifiers, ident) THEN rest ELSE <<ident>> \o rest

\* ---- the first-run filter ------------------------------------------------
\* identifier.split(" || ", 1)
RECURSIVE FirstSep(_, _)
FirstSep(s, k) ==
    IF k > Len(s) THEN 0
    ELSE IF s[k] = SEP THEN k ELSE FirstSep(s, k + 1)

DatePart(identifier) ==
    LET k == FirstSep(identifier, 1)
    IN  IF k = 0 THEN <<UnknownDate>> ELSE SubSeq(identifier, 1, k - 1)

TitlePart(identifier) ==
    LET k == FirstSep(identifier, 1)
    IN  IF k = 0 THEN identifier ELSE SubSeq(identifier, k + 1, Len(identifier))

\* strptime(date_part_str, "%Y-%m-%d"): the day, or -1 for ValueError.
ParseIsoDate(date_part) ==
    IF Len(date_part) = 1 THEN IsoDay(date_part[1]) ELSE -1

\* As OlderThanCutoff, but with news_date <= cutoff_date.
OlderThanCutoff_Inclusive(day) == day >= CutoffDays

\* news_date < cutoff_date, with dates counted in days before today.
OlderThanCutoff(day) == day > CutoffDays

\* As SendNotification, but a ValueError of strptime drops the notification.
SendNotification_DropsUnparsed(identifier, first_run) ==
    IF first_run
    THEN LET day == ParseIsoDate(DatePart(identifier))
         IN  IF day >= 0 THEN ~(day > CutoffDays) ELSE FALSE
    ELSE TRUE

\* As SendNotification, but the cutoff is applied on every run.
SendNotification_AlwaysCutoff(identifier, first_run) ==
    LET day == ParseIsoDate(DatePart(identifier))
    IN  IF day >= 0 THEN ~(day > CutoffDays) ELSE TRUE

SendNotification(identifier, first_run) ==
    IF first_run
    THEN LET day == ParseIsoDate(DatePart(identifier))
         IN  IF day >= 0 THEN ~OlderThanCutoff(day) ELSE TRUE
    ELSE TRUE

\* ---- receivers -----------------------------------------------------------
Strip(item) == SelectSeq(item, LAMBDA c : c # " ")

RECURSIVE ParseReceiverIds(_)
ParseReceiverIds(items) ==
    IF items = <<>> THEN <<>>
    ELSE LET rest == ParseReceiverIds(Tail(items))
         IN  IF Strip(Head(items)) = <<>> THEN rest
             ELSE <<Strip(Head(items))>> \o rest

\* VIBER_RECEIVER_IDS values, already split at the commas.
EnvValues ==
    { << <<>> >>,
      << <<" ">>, <<>> >>,
      << <<"r1">> >>,
      << <<"r1">>, <<" ", "r2", " ">> >> }


\* ---- save_news_cache -----------------------------------------------------
\* open(DATA_FILE, "w") may fail and leave the file as it is; a failure after
\* the open has truncated the file leaves an incomplete JSON text.
SaveResults == {"ok", "open_fails", "write_fails"}

\* As SaveNewsCacheFile, but the listing is appended to the array on disk.
SaveNewsCacheFile_Appends(f, identifiers, result) ==
    CASE result = "ok" ->
            JsonArray((IF f.kind = "array" THEN f.body ELSE <<>>) \o identifiers)
      [] result = "open_fails" -> f
      [] result = "write_fails" -> Corrupt

\* As SaveNewsCacheFile, but only the first identifier is written.
SaveNewsCacheFile_Truncates(f, identifiers, result) ==
    CASE result = "ok" -> JsonArray(SubSeq(identifiers, 1, 1))
      [] result = "open_fails" -> f
      [] result = "write_fails" -> Corrupt

SaveNewsCacheFile(f, identifiers, result) ==
    CASE result = "ok" -> JsonArray(identifiers)
      [] result = "open_fails" -> f
      [] result = "write_fails" -> Corrupt

\* ---- state ---------------------------------------------------------------
VARIABLES
    file,                \* content of DATA_FILE
    receivers,           \* VIBER_RECEIVER_IDS
    pc,                  \* position of the run in main()
    cached_identifiers,  \* value returned by load_cached_news()
    is_first_run,
    latest_identifiers,
    new_identifiers,
    i,                   \* index of the identifier being handled in new_identifiers
    j,                   \* index of the receiver being sent to
    attempt,             \* failed calls of send_viber_message for the current pair
    sends,               \* this run's finished sends: [id, to, ok, paused]
    fetchCalls,          \* calls of the body of get_latest_news in this run
    fetchKind,           \* what the last call met
    saveCalls,           \* calls of save_news_cache in this run
    saveFailed,          \* this run's save_news_cache caught an exception
    fileAtStart,         \* content of DATA_FILE when this run began
    prevLatest,          \* the listing the latest fetch returned; <<>> once a save of it failed
    sameAsPrev,          \* this run fetched the non-empty listing prevLatest held
    killed,              \* what a run killed after a send had fetched, computed and sent
    tracked              \* what earlier complete runs did with the identifier Tracked

vars == <<file, receivers, pc, cached_identifiers, is_first_run, latest_identifiers,
          new_identifiers, i, j, attempt, sends, fetchCalls, fetchKind, saveCalls,
          saveFailed, fileAtStart, prevLatest, sameAsPrev, killed, tracked>>

runVars == <<cached_identifiers, is_first_run, latest_identifiers, new_identifiers,
             i, j, attempt, sends, fetchCalls, fetchKind, saveCalls>>

history == <<prevLatest, sameAsPrev>>

ledger == <<killed, tracked>>

\* The value of killed when the run before this one was not killed after a
\* send, or this run fetched another listing than the killed run had.
NoKill == [latest |-> <<>>, new |-> <<>>, first |-> FALSE, sends |-> <<>>]

\* The identifier followed from run to run.
Tracked == <<"iso365", SEP, "A">>

Running == {"load", "fetch", "check", "no_new", "loop", "send"}

Terminal == {"no_receivers", "aborted", "finished", "crashed"}

Init ==
    /\ file \in InitialFiles
    /\ receivers \in { ParseReceiverIds(e) : e \in EnvValues }
    /\ pc = "idle"
    /\ cached_identifiers = JsonArray(<<>>)
    /\ is_first_run = FALSE
    /\ latest_identifiers = <<>>
    /\ new_identifiers = <<>>
    /\ i = 1
    /\ j = 1
    /\ attempt = 0
    /\ sends = <<>>
    /\ fetchCalls = 0
    /\ fetchKind = "none"
    /\ saveCalls = 0
    /\ saveFailed = FALSE
    /\ fileAtStart = file
    /\ prevLatest = <<>>
    /\ sameAsPrev = FALSE
    /\ killed = NoKill
    /\ tracked = "no"

\* As Main, but without the check of VIBER_RECEIVER_IDS.
Main_NoReceiverCheck ==
    /\ pc \in {"no_receivers", "aborted", "finished", "crashed", "idle", "killed"}
    /\ pc' = "load"
    /\ cached_identifiers' = JsonArray(<<>>)
    /\ is_first_run' = FALSE
    /\ latest_identifiers' = <<>>
    /\ new_identifiers' = <<>>
    /\ i' = 1
    /\ j' = 1
    /\ attempt' = 0
    /\ sends' = <<>>
    /\ fetchCalls' = 0
    /\ fetchKind' = "none"
    /\ saveCalls' = 0
    /\ saveFailed' = FALSE
    /\ fileAtStart' = file
    /\ sameAsPrev' = FALSE
    /\ UNCHANGED <<file, receivers, prevLatest>>
    /\ UNCHANGED ledger

\* The scheduler starts a run: main() up to the check of VIBER_RECEIVER_IDS.
Main ==
    /\ pc \in Terminal \cup {"idle", "killed"}
    /\ pc' = IF receivers = <<>> THEN "no_receivers" ELSE "load"
    /\ cached_identifiers' = JsonArray(<<>>)
    /\ is_first_run' = FALSE
    /\ latest_identifiers' = <<>>
    /\ new_identifiers' = <<>>
    /\ i' = 1
    /\ j' = 1
    /\ attempt' = 0
    /\ sends' = <<>>
    /\ fetchCalls' = 0
    /\ fetchKind' = "none"
    /\ saveCalls' = 0
    /\ saveFailed' = FALSE
    /\ fileAtStart' = file
    /\ sameAsPrev' = FALSE
    /\ UNCHANGED <<file, receivers, prevLatest>>
    /\ UNCHANGED ledger

\* cached_identifiers = load_cached_news(); is_first_run = not cached_identifiers
LoadCache ==
    /\ pc = "load"
    /\ cached_identifiers' = LoadCachedNews(file)
    /\ is_first_run' = ~Truthy(LoadCachedNews(file))
    /\ pc' = "fetch"
    /\ UNCHANGED <<file, receivers, latest_identifiers, new_identifiers, i, j, attempt,
                   sends, fetchCalls, fetchKind, saveCalls, saveFailed, fileAtStart>>
    /\ UNCHANGED history
    /\ UNCHANGED ledger

\* latest_identifiers = get_latest_news(), under @retry(stop_after_attempt(3)).
GetLatestNews ==
    /\ pc = "fetch"
    /\ \E call \in FetchOutcomes :
        LET r == call.result
        IN  /\ fetchCalls' = fetchCalls + 1
            /\ fetchKind' = call.kind
            /\ IF RetryAgain(r.raised, fetchCalls + 1, FetchMaxAttempts)
               THEN /\ pc' = "fetch"
                    /\ UNCHANGED <<latest_identifiers, sameAsPrev, prevLatest, ledger>>
               ELSE /\ pc' = IF r.raised THEN "crashed" ELSE "check"
                    /\ latest_identifiers' = r.value
                    /\ sameAsPrev' = (r.value # <<>> /\ r.value = prevLatest)
                    /\ prevLatest' = r.value
                    /\ killed' = IF r.value = killed.latest THEN killed ELSE NoKill
                    /\ tracked' = IF /\ tracked = "kept"
                                     /\ r.value # <<>>
                                     /\ \A k \in 1..Len(r.value) : r.value[k] # Tracked
                                  THEN "gone" ELSE tracked
    /\ UNCHANGED <<file, receivers, cached_identifiers, is_first_run, new_identifiers,
                   i, j, attempt, sends, saveCalls, saveFailed, fileAtStart>>

\* As AbortNoData, but the empty result is saved before the return.
AbortNoData_SavesEmpty ==
    /\ pc = "check"
    /\ latest_identifiers = <<>>
    /\ pc' = "aborted"
    /\ file' = JsonArray(latest_identifiers)
    /\ UNCHANGED <<receivers, saveFailed, fileAtStart>>
    /\ UNCHANGED runVars
    /\ UNCHANGED history
    /\ UNCHANGED ledger

\* if not latest_identifiers: return
AbortNoData ==
    /\ pc = "check"
    /\ latest_identifiers = <<>>
    /\ pc' = "aborted"
    /\ UNCHANGED <<file, receivers, saveFailed, fileAtStart>>
    /\ UNCHANGED runVars
    /\ UNCHANGED history
    /\ UNCHANGED ledger

\* `ident not in cached_identifiers` on a value that is no container.
DiffTypeError ==
    /\ pc = "check"
    /\ latest_identifiers # <<>>
    /\ ~Iterable(cached_identifiers)
    /\ pc' = "crashed"
    /\ UNCHANGED <<file, receivers, saveFailed, fileAtStart>>
    /\ UNCHANGED runVars
    /\ UNCHANGED history
    /\ UNCHANGED ledger

\* new_identifiers = [...]; if new_identifiers: ... else: ...
ComputeNew ==
    /\ pc = "check"
    /\ latest_identifiers # <<>>
    /\ Iterable(cached_identifiers)
    /\ new_identifiers' = NewIdentifiers(latest_identifiers, cached_identifiers)
    /\ pc' = IF new_identifiers' # <<>> THEN "loop" ELSE "no_new"
    /\ UNCHANGED <<file, receivers, cached_identifiers, is_first_run, latest_identifiers,
                   i, j, attempt, sends, fetchCalls, fetchKind, saveCalls, saveFailed,
                   fileAtStart>>
    /\ UNCHANGED history
    /\ UNCHANGED ledger

\* As NoNewNews, but the listing is saved in the else branch too.
NoNewNews_Saves ==
    /\ pc = "no_new"
    /\ pc' = "finished"
    /\ file' = JsonArray(latest_identifiers)
    /\ saveCalls' = saveCalls + 1
    /\ UNCHANGED <<receivers, cached_identifiers, is_first_run, latest_identifiers,
                   new_identifiers, i, j, attempt, sends, fetchCalls, fetchKind,
                   saveFailed, fileAtStart>>
    /\ UNCHANGED history
    /\ killed' = NoKill
    /\ UNCHANGED tracked

\* else: print("No new news from TLScontact.")
NoNewNews ==
    /\ pc = "no_new"
    /\ pc' = "finished"
    /\ UNCHANGED <<file, receivers, saveFailed, fileAtStart>>
    /\ UNCHANGED runVars
    /\ UNCHANGED history
    /\ killed' = NoKill
    /\ UNCHANGED tracked

\* One turn of `for identifier in new_identifiers` up to `if send_notification`.
NextIdentifier ==
    /\ pc = "loop"
    /\ i <= Len(new_identifiers)
    /\ IF SendNotification(new_identifiers[i], is_first_run)
       THEN /\ pc' = "send"
            /\ i' = i
       ELSE /\ pc' = "loop"
            /\ i' = i + 1
    /\ j' = 1
    /\ attempt' = 0
    /\ UNCHANGED <<file, receivers, cached_identifiers, is_first_run, latest_identifiers,
                   new_identifiers, sends, fetchCalls, fetchKind, saveCalls, saveFailed,
                   fileAtStart>>
    /\ UNCHANGED history
    /\ killed' = NoKill
    /\ UNCHANGED tracked

\* The receiver loop moves on after a send has succeeded or been given up.
NextReceiver ==
    /\ attempt' = 0
    /\ IF j < Len(receivers)
       THEN /\ j' = j + 1
            /\ UNCHANGED <<pc, i>>
       ELSE /\ j' = 1
            /\ i' = i + 1
            /\ pc' = "loop"

\* One finished send.  time.sleep(0.2) follows send_viber_message inside the
\* try, so the pause is made exactly when the call returned.
SendRecord(ok) ==
    [id |-> new_identifiers[i], to |-> receivers[j], ok |-> ok, paused |-> ok]

\* As SendOk, but the identifier is added to the cache file once it is sent.
SendOk_SavesAsItGoes ==
    /\ pc = "send"
    /\ sends' = Append(sends, SendRecord(TRUE))
    /\ NextReceiver
    /\ file' = JsonArray((IF file.kind = "array" THEN file.body ELSE <<>>)
                            \o <<new_identifiers[i]>>)
    /\ UNCHANGED <<receivers, cached_identifiers, is_first_run, latest_identifiers,
                   new_identifiers, fetchCalls, fetchKind, saveCalls, saveFailed,
                   fileAtStart>>
    /\ UNCHANGED history
    /\ UNCHANGED ledger

\* viber.send_messages succeeds.
SendOk ==
    /\ pc = "send"
    /\ sends' = Append(sends, SendRecord(TRUE))
    /\ NextReceiver
    /\ UNCHANGED <<file, receivers, cached_identifiers, is_first_run, latest_identifiers,
                   new_identifiers, fetchCalls, fetchKind, saveCalls, saveFailed,
                   fileAtStart>>
    /\ UNCHANGED history
    /\ UNCHANGED ledger

\* viber.send_messages raises; tenacity calls send_viber_message again.
SendRetry ==
    /\ pc = "send"
    /\ RetryAgain(TRUE, attempt + 1, SendMaxAttempts)
    /\ attempt' = attempt + 1
    /\ UNCHANGED <<file, receivers, pc, cached_identifiers, is_first_run,
                   latest_identifiers, new_identifiers, i, j, sends, fetchCalls,
                   fetchKind, saveCalls, saveFailed, fileAtStart>>
    /\ UNCHANGED history
    /\ UNCHANGED ledger

\* As SendAbandon, but the RetryError leaves main().
SendAbandon_Propagates ==
    /\ pc = "send"
    /\ ~RetryAgain(TRUE, attempt + 1, SendMaxAttempts)
    /\ sends' = Append(sends, SendRecord(FALSE))
    /\ pc' = "crashed"
    /\ UNCHANGED <<file, receivers, cached_identifiers, is_first_run, latest_identifiers,
                   new_identifiers, i, j, attempt, fetchCalls, fetchKind, saveCalls,
                   saveFailed, fileAtStart>>
    /\ UNCHANGED history
    /\ UNCHANGED ledger

\* The last attempt raises; main() catches the RetryError and goes on.
SendAbandon ==
    /\ pc = "send"
    /\ ~RetryAgain(TRUE, attempt + 1, SendMaxAttempts)
    /\ sends' = Append(sends, SendRecord(FALSE))
    /\ NextReceiver
    /\ UNCHANGED <<file, receivers, cached_identifiers, is_first_run, latest_identifiers,
                   new_identifiers, fetchCalls, fetchKind, saveCalls, saveFailed,
                   fileAtStart>>
    /\ UNCHANGED history
    /\ UNCHANGED ledger

\* save_news_cache(latest_identifiers) after the loop.
SaveCache ==
    /\ pc = "loop"
    /\ i > Len(new_identifiers)
    /\ \E result \in SaveResults :
        /\ file' = SaveNewsCacheFile(file, latest_identifiers, result)
        /\ saveFailed' = (result # "ok")
        /\ prevLatest' = IF result = "ok" THEN prevLatest ELSE <<>>
        /\ tracked' = IF result # "ok" THEN "no"
                      ELSE IF \E k \in 1..Len(sends) : sends[k].id = Tracked /\ sends[k].ok
                           THEN "kept" ELSE tracked
    /\ saveCalls' = saveCalls + 1
    /\ pc' = "finished"
    /\ UNCHANGED <<receivers, cached_identifiers, is_first_run, latest_identifiers,
                   new_identifiers, i, j, attempt, sends, fetchCalls, fetchKind,
                   fileAtStart, sameAsPrev, killed>>

\* The process is killed from outside (a scheduler's timeout) before
\* save_news_cache is called: the locals are gone, the file is as it was.
Kill ==
    /\ pc \in Running
    /\ pc' = "killed"
    /\ killed' = IF sends = <<>> THEN NoKill
                  ELSE [latest |-> latest_identifiers,
                        new |-> new_identifiers,
                        first |-> is_first_run,
                        sends |-> [k \in 1..Len(sends) |-> <<sends[k].id, sends[k].to>>]]
    /\ tracked' = "no"
    /\ prevLatest' = <<>>
    /\ sameAsPrev' = FALSE
    /\ cached_identifiers' = JsonArray(<<>>)
    /\ is_first_run' = FALSE
    /\ latest_identifiers' = <<>>
    /\ new_identifiers' = <<>>
    /\ i' = 1
    /\ j' = 1
    /\ attempt' = 0
    /\ sends' = <<>>
    /\ fetchCalls' = 0
    /\ fetchKind' = "none"
    /\ saveCalls' = 0
    /\ UNCHANGED <<file, receivers, saveFailed, fileAtStart>>

Next ==
    \/ Main
    \/ LoadCache
    \/ GetLatestNews
    \/ AbortNoData
    \/ DiffTypeError
    \/ ComputeNew
    \/ NoNewNews
    \/ NextIdentifier
    \/ SendOk
    \/ SendRetry
    \/ SendAbandon
    \/ SaveCache
    \/ Kill

Spec == Init /\ [][Next]_vars


\* ---- vocabulary of the properties ---------------------------------------
\* The fetch stage of the current run is over.
Fetched == fetchCalls > 0 /\ pc # "fetch"

\* The diff of the current run has been computed.
Diffed == pc \in {"no_new", "loop", "send", "finished"}

Elements(seq) == { seq[k] : k \in 1..Len(seq) }

\* The day an identifier's date part names, or -1 when it names none.
DayOf(identifier) == ParseIsoDate(DatePart(identifier))

SendTried(identifier, receiver) ==
    \E k \in 1..Len(sends) : sends[k].id = identifier /\ sends[k].to = receiver

SentToAll(identifier) ==
    \A r \in 1..Len(receivers) : SendTried(identifier, receivers[r])

SomeAbandoned == \E k \in 1..Len(sends) : ~sends[k].ok

\* The (identifier, receiver) pairs main() walks through, in its order.
SendEligible == SelectSeq(new_identifiers, LAMBDA x : SendNotification(x, is_first_run))

ExpectedPairs ==
    [k \in 1..(Len(SendEligible) * Len(receivers)) |->
        << SendEligible[((k - 1) \div Len(receivers)) + 1],
           receivers[((k - 1) % Len(receivers)) + 1] >>]

TriedPairs == [k \in 1..Len(sends) |-> <<sends[k].id, sends[k].to>>]

\* ---- C1 ------------------------------------------------------------------
\* C1: when the fetch stage yields no identifiers (transport or HTTP failure,
\* missing container, parsing exception, or a page without titled headings)
\* the run goes to its abort and nowhere else, no message has been sent, the
\* cache has not been saved, and the cache file is what it was when the run
\* began.
C1_EmptyFetchAborts ==
    (Fetched /\ latest_identifiers = <<>>) =>
        /\ pc \in {"check", "aborted"}
        /\ sends = <<>>
        /\ saveCalls = 0
        /\ SameFile(file, fileAtStart)

C1_Witness ==
    /\ pc = "aborted"
    /\ fetchKind = "parse_error"
    /\ file.kind = "array"
    /\ file.body # <<>>

\* ---- C2 ------------------------------------------------------------------
\* C2: a run that fetches the same non-empty listing as the run before it
\* (whose save, if any, succeeded) ends normally with zero new identifiers and
\* with the cache file as it was when the run began, whatever the cache file
\* held before the first of the two runs.
C2_SecondRunIdempotent ==
    (sameAsPrev /\ pc \in Terminal) =>
        /\ pc = "finished"
        /\ new_identifiers = <<>>
        /\ SameFile(file, fileAtStart)

\* ---- C3 ------------------------------------------------------------------
NoDuplicates(seq) == Cardinality(Elements(seq)) = Len(seq)

\* C3: after every run that fetched a non-empty listing and reached its end,
\* the cache file is the array of the fetched listing, in its order (stated
\* here for the runs that began with no cache file or with an array in it,
\* fetched a listing that names no identifier twice, and whose write, if any,
\* succeeded).
C3_CacheEqualsFetch ==
    (/\ pc = "finished"
     /\ latest_identifiers # <<>>
     /\ NoDuplicates(latest_identifiers)
     /\ fileAtStart.kind \in {"absent", "array"}
     /\ ~saveFailed) =>
        SameFile(file, JsonArray(latest_identifiers))

\* C3 amended: a run that reached its end called save_news_cache exactly when
\* it found a new identifier; when it did and the write succeeded, the cache
\* file is the array of the fetched listing in its order (neither the old
\* cache nor old cache plus new items); a run that found no new identifier
\* leaves the cache file as it was, also when the listing lost items.
C3_CacheEqualsFetchWhenSaved ==
    pc = "finished" =>
        /\ latest_identifiers # <<>>
        /\ (saveCalls = 1) <=> (new_identifiers # <<>>)
        /\ (saveCalls = 1 /\ ~saveFailed) =>
                SameFile(file, JsonArray(latest_identifiers))
        /\ (saveCalls = 0) => SameFile(file, fileAtStart)

C3_Witness ==
    /\ pc = "finished"
    /\ saveCalls = 1
    /\ ~saveFailed
    /\ cached_identifiers.kind = "array"
    /\ \E k \in 1..Len(cached_identifiers.body) :
            cached_identifiers.body[k] \notin Elements(latest_identifiers)
    /\ SameFile(file, JsonArray(latest_identifiers))

\* ---- C4 ------------------------------------------------------------------
InvalidKinds == {"corrupt", "scalar", "string", "object"}

\* C4: when the cache file held invalid content at the start of the run
\* (undecodable JSON, or JSON that is no array), load_cached_news has returned
\* the empty sequence, the run is a first run, and it does not crash.
C4_InvalidCacheIsMissingCache ==
    (fileAtStart.kind \in InvalidKinds /\ pc \notin {"idle", "load", "no_receivers"}) =>
        /\ SameFile(cached_identifiers, JsonArray(<<>>))
        /\ is_first_run
        /\ pc # "crashed"

\* ---- C5 ------------------------------------------------------------------
\* The cache loaded by this run is an empty container.
EmptyCacheLoaded == is_first_run /\ Iterable(cached_identifiers)

\* The run fetched a non-empty listing and is over.
RunOver == pc \in Terminal /\ latest_identifiers # <<>>

\* C5: on a run that loaded an empty cache no send is made for an identifier
\* whose date part parses to a day more than 365 days before today; such a
\* run, once it has fetched a listing, ends normally, and then a send has been
\* made to every receiver for every new identifier whose date part parses to
\* a day at most 365 days before today, every identifier of the listing is
\* new, save_news_cache has been called with the listing, and unless its
\* write failed the cache file holds the whole listing, suppressed
\* identifiers included.
C5_FirstRunCutoff ==
    EmptyCacheLoaded =>
        /\ \A k \in 1..Len(sends) : ~(DayOf(sends[k].id) > 365)
        /\ RunOver =>
            /\ pc = "finished"
            /\ \A n \in 1..Len(new_identifiers) :
                   (DayOf(new_identifiers[n]) >= 0 /\ DayOf(new_identifiers[n]) <= 365)
                       => SentToAll(new_identifiers[n])
            /\ saveCalls = 1
            /\ new_identifiers = latest_identifiers
            /\ ~saveFailed => SameFile(file, JsonArray(latest_identifiers))

C5_Witness ==
    /\ is_first_run
    /\ pc = "finished"
    /\ ~saveFailed
    /\ Len(new_identifiers) = 2
    /\ DayOf(new_identifiers[1]) = 366
    /\ DayOf(new_identifiers[2]) = 365
    /\ Len(receivers) = 2
    /\ Len(sends) = 2
    /\ SentToAll(new_identifiers[2])
    /\ file.body = latest_identifiers

\* ---- C6 ------------------------------------------------------------------
\* C6: a run that loaded an empty cache and fetched a listing ends normally,
\* and then a send has been made to every receiver for every new identifier
\* whose date part does not parse as YYYY-MM-DD.
C6_UnparsedDateIsSent ==
    (EmptyCacheLoaded /\ RunOver) =>
        /\ pc = "finished"
        /\ \A n \in 1..Len(new_identifiers) :
               DayOf(new_identifiers[n]) < 0 => SentToAll(new_identifiers[n])

C6_Witness ==
    /\ is_first_run
    /\ pc = "finished"
    /\ Len(new_identifiers) = 2
    /\ DatePart(new_identifiers[1]) = <<UnknownDate>>
    /\ DatePart(new_identifiers[2]) = <<"soon">>
    /\ SentToAll(new_identifiers[1])
    /\ SentToAll(new_identifiers[2])

\* ---- C7 ------------------------------------------------------------------
AbsentPositions ==
    { p \in 1..Len(latest_identifiers) :
        latest_identifiers[p] \notin Elements(cached_identifiers.body) }

KthAbsent(k) ==
    CHOOSE p \in AbsentPositions :
        Cardinality({ q \in AbsentPositions : q < p }) = k - 1

\* C7: for a cache that is a sequence, new_identifiers is latest_identifiers
\* with the positions holding an element of the cache struck out: as many
\* items as there are positions of latest_identifiers whose item is absent
\* from the cache, and the k-th of them is the item at the k-th such position.
C7_DiffIsLatestMinusCached ==
    (Diffed /\ cached_identifiers.kind = "array") =>
        /\ Len(new_identifiers) = Cardinality(AbsentPositions)
        /\ \A k \in 1..Len(new_identifiers) :
               new_identifiers[k] = latest_identifiers[KthAbsent(k)]

C7_Witness ==
    /\ pc = "loop"
    /\ cached_identifiers.kind = "array"
    /\ Len(cached_identifiers.body) = 2
    /\ Len(latest_identifiers) = 2
    /\ cached_identifiers.body[1] \notin Elements(latest_identifiers)
    /\ latest_identifiers[1] = cached_identifiers.body[2]
    /\ new_identifiers = <<latest_identifiers[2]>>

\* ---- C8 ------------------------------------------------------------------
\* C8: an abandoned send never ends the run in a crash, and a run that
\* abandoned a send and reached its end has made, in order, the send to every
\* receiver for every send-eligible identifier and has called save_news_cache.
C8_AbandonedSendIsSkipped ==
    SomeAbandoned =>
        /\ pc \in {"loop", "send", "finished"}
        /\ pc = "finished" => (TriedPairs = ExpectedPairs /\ saveCalls = 1)

C8_Witness ==
    /\ pc = "finished"
    /\ Len(sends) = 4
    /\ ~sends[1].ok
    /\ sends[2].ok
    /\ sends[2].id = sends[1].id
    /\ sends[3].id # sends[1].id
    /\ saveCalls = 1

\* ---- C9 ------------------------------------------------------------------
\* C9: save_news_cache is called, and the cache file changes, only in a step
\* that is the first save of the run, taken when new_identifiers is not empty
\* and every send of the run has been made, and that ends the run; and a run
\* with no new identifier never saves and leaves the file as it was.
C9_SaveOnceAfterSends ==
    /\ [][ (saveCalls' > saveCalls \/ ~SameFile(file', file)) =>
              /\ saveCalls = 0
              /\ saveCalls' = 1
              /\ new_identifiers # <<>>
              /\ TriedPairs = ExpectedPairs
              /\ sends' = sends
              /\ pc' = "finished" ]_vars
    /\ []( (Diffed /\ new_identifiers = <<>>) =>
              (saveCalls = 0 /\ SameFile(file, fileAtStart)) )

C9_Witness ==
    /\ pc = "finished"
    /\ saveCalls = 1
    /\ Len(sends) = 4
    /\ ~SameFile(file, fileAtStart)

\* ---- C10 -----------------------------------------------------------------
\* C10: a run that aborted because the GET failed with a transport error or
\* a non-2xx status has called the fetch 3 times.
C10_AbortAfterThreeFetches ==
    (pc = "aborted" /\ fetchKind \in {"transport_error", "http_error"}) =>
        fetchCalls = FetchMaxAttempts


\* ---- C11 -----------------------------------------------------------------
\* The cache loaded by this run is a container that holds something.
NonEmptyCacheLoaded ==
    ~is_first_run /\ Iterable(cached_identifiers) /\ Truthy(cached_identifiers)

\* C11: a run that loaded a non-empty cache and fetched a listing ends
\* normally, and then it has made one send to every receiver for every new
\* identifier and no other send, whatever the identifiers' dates.
C11_NonFirstRunSendsAll ==
    (NonEmptyCacheLoaded /\ RunOver) =>
        /\ pc = "finished"
        /\ \A n \in 1..Len(new_identifiers) : SentToAll(new_identifiers[n])
        /\ Len(sends) = Len(new_identifiers) * Len(receivers)

C11_Witness ==
    /\ NonEmptyCacheLoaded
    /\ pc = "finished"
    /\ \E n \in 1..Len(new_identifiers) :
          /\ DayOf(new_identifiers[n]) = 366
          /\ SentToAll(new_identifiers[n])

\* ---- C12 -----------------------------------------------------------------
\* C12: with an empty VIBER_RECEIVER_IDS a run goes from its start to its
\* return and nowhere else: no fetch has been made, no send has been made,
\* save_news_cache has not been called and the cache file is what it was.
C12_NoReceiversNoAction ==
    receivers = <<>> =>
        /\ pc \in {"idle", "no_receivers"}
        /\ fetchCalls = 0
        /\ sends = <<>>
        /\ saveCalls = 0
        /\ SameFile(file, fileAtStart)

C12_Witness ==
    /\ receivers = <<>>
    /\ pc = "no_receivers"
    /\ file.kind = "array"
    /\ file.body # <<>>

\* ---- C13 -----------------------------------------------------------------
\* C13: at most 4 calls of the messaging API have failed for the pair being
\* sent; a send is finished only for the pair being sent, by a call that
\* succeeds as one of its first 5 calls or by the failure of its 5th call,
\* and then the run moves on from that pair.
C13_SendAttemptsBounded ==
    /\ [](attempt \in 0..4 /\ (attempt > 0 => pc = "send"))
    /\ [][ Len(sends') = Len(sends) + 1 =>
              LET rec == sends'[Len(sends')]
              IN  /\ pc = "send"
                  /\ rec.id = new_identifiers[i]
                  /\ rec.to = receivers[j]
                  /\ rec.ok => attempt + 1 \in 1..5
                  /\ ~rec.ok => attempt + 1 = 5
                  /\ attempt' = 0
                  /\ (i' # i \/ j' # j) ]_vars

C13_Witness ==
    /\ pc = "send"
    /\ attempt = 4
    /\ Len(sends) = 2
    /\ ~sends[1].ok
    /\ sends[2].ok

\* ---- C14 -----------------------------------------------------------------
\* C14: no run ends with an exception leaving main().
C14_RunsReturnNormally == pc # "crashed"

\* ---- C15 -----------------------------------------------------------------
\* C15: within a run no receiver is delivered the message of one identifier
\* twice.
C15_DeliveredOncePerReceiver ==
    \A k, m \in 1..Len(sends) :
        (k # m /\ sends[k].ok /\ sends[m].ok) =>
            ~(sends[k].id = sends[m].id /\ sends[k].to = sends[m].to)

\* ---- C16 -----------------------------------------------------------------
\* C16: every send of a run that another send follows was followed by the
\* fixed pause.
C16_PauseBetweenSends ==
    \A k \in 1..(Len(sends) - 1) : sends[k].paused

\* ---- C17 -----------------------------------------------------------------
IsPrefix(s, t) == Len(s) <= Len(t) /\ \A k \in 1..Len(s) : s[k] = t[k]

\* C17: a run that starts after a run was killed between a send and the save,
\* and fetches the listing the killed run fetched, finds the file as the
\* killed run found it, computes the new identifiers and the first-run status
\* the killed run computed, and is about to send, in order, every message the
\* killed run sent.
C17_KilledRunIsRepeated ==
    (killed # NoKill /\ pc \in {"check", "no_new", "loop", "crashed"}) =>
        /\ latest_identifiers = killed.latest
        /\ SameFile(file, fileAtStart)
        /\ pc \in {"check", "loop"}
        /\ pc = "loop" =>
              /\ new_identifiers = killed.new
              /\ is_first_run = killed.first
              /\ i = 1
              /\ IsPrefix(killed.sends, ExpectedPairs)

C17_Witness ==
    /\ pc = "loop"
    /\ killed # NoKill
    /\ killed.first
    /\ Len(killed.sends) >= 2
    /\ killed.sends[1][1] # killed.sends[Len(killed.sends)][1]
    /\ file.kind = "absent"

\* ---- C18 -----------------------------------------------------------------
NotCached(identifier) ==
    /\ identifier \in Elements(latest_identifiers)
    /\ Iterable(cached_identifiers)
    /\ cached_identifiers.kind \in {"array", "object"} =>
           identifier \notin Elements(cached_identifiers.body)

\* C18: every send made, and the send being made, is for an identifier that
\* is in the fetched listing and is no element of the cache loaded by the run.
C18_OnlyNewAreSent ==
    /\ \A k \in 1..Len(sends) : NotCached(sends[k].id)
    /\ pc = "send" => NotCached(new_identifiers[i])

C18_Witness ==
    /\ pc = "finished"
    /\ cached_identifiers.kind = "array"
    /\ Len(latest_identifiers) = 2
    /\ latest_identifiers[1] \in Elements(cached_identifiers.body)
    /\ latest_identifiers[2] \notin Elements(cached_identifiers.body)
    /\ Len(sends) = Len(receivers)
    /\ sends[1].id = latest_identifiers[2]

\* ---- C19 -----------------------------------------------------------------
TrackedSentNow == \E k \in 1..Len(sends) : sends[k].id = Tracked

\* C19 as stated: once complete runs with successful writes have notified and
\* saved the identifier Tracked, no later run sends a message for it,
\* whatever listings were fetched in between.
C19_NeverNotifiedAgain ==
    (tracked \in {"kept", "gone"} /\ pc # "finished") => ~TrackedSentNow

\* C19, amended: once complete runs with successful writes have notified and
\* saved the identifier Tracked, no later run sends a message for it as long
\* as every non-empty listing fetched since then has held it.
C19_NotNotifiedAgainWhileListed ==
    (tracked = "kept" /\ pc # "finished") => ~TrackedSentNow

C19_Witness ==
    /\ tracked = "kept"
    /\ pc = "loop"
    /\ i > Len(new_identifiers)
    /\ Tracked \in Elements(latest_identifiers)
    /\ sends # <<>>
    /\ \A k \in 1..Len(sends) : sends[k].ok

====
